---- MODULE Spec2Model ----
(***************************************************************************)
(* Model of src/script.js: the Tracker firing gate, the streaming          *)
(* BrowserFftFeatureExtractor (constructor, start, onAudioFrame, stop)     *)
(* and the page-level score aggregation (spectrogramCallback of init,      *)
(* showMP3Result, the playback session).                                   *)
(*                                                                         *)
(* JavaScript values that may be missing are encoded as tuples:            *)
(*   <<>> is undefined/null, <<n>> is the number n, <<0, 0>> is NaN.       *)
(* overlapFactor is held in percent (50 is 0.5); scores are held in        *)
(* ten-thousandths (3334 is 0.3334) and toFixed(3) results in thousandths. *)
(***************************************************************************)
EXTENDS Integers, Sequences, FiniteSets, TLC

(***************************************************************************)
(* Bounds of the exploration                                               *)
(***************************************************************************)
MaxPeriod == 3        \* Tracker in isolation: periods 1..MaxPeriod
MaxSuppression == 2   \* Tracker in isolation: suppression 0..MaxSuppression
MaxCounter == 7       \* Tracker in isolation: ticks explored
MaxFrames == 2        \* extractor: numFramesPerSpectrogram 1..MaxFrames
MaxExtraTicks == 2    \* extractor: ticks explored beyond a full window
MaxStarts == 2        \* extractor: start() calls that succeed
MaxInFlight == 2      \* extractor: callbacks awaited at the same time
MaxSessions == 2      \* page: playback sessions
MaxCapacity == 2      \* flattenQueue in isolation: frames in the queue 1..MaxCapacity
MaxWidth == 2         \* flattenQueue in isolation: values per frame 1..MaxWidth

(***************************************************************************)
(* JavaScript values                                                       *)
(***************************************************************************)
Undef == <<>>
NaN == <<0, 0>>
Num(n) == <<n>>
IsNum(v) == Len(v) = 1
Val(v) == v[1]

\* a < b, a > b, a >= b, a <= b of JavaScript: false when an operand is
\* undefined or NaN (undefined converts to NaN)
JsLt(a, b) == IsNum(a) /\ IsNum(b) /\ Val(a) < Val(b)
JsGt(a, b) == IsNum(a) /\ IsNum(b) /\ Val(a) > Val(b)
JsGe(a, b) == IsNum(a) /\ IsNum(b) /\ Val(a) >= Val(b)
JsLe(a, b) == IsNum(a) /\ IsNum(b) /\ Val(a) <= Val(b)

\* a || b on numbers: b when a is undefined, NaN or 0
JsOr(a, b) == IF IsNum(a) /\ Val(a) # 0 THEN a ELSE b

\* Math.round(a / b) for integers a and b > 0: the nearest integer, halves up
RoundDiv(a, b) == (2 * a + b) \div (2 * b)

Max(a, b) == IF a >= b THEN a ELSE b

(***************************************************************************)
(* Tracker                                                                 *)
(***************************************************************************)
\* new Tracker(period, suppressionPeriod): the object, or <<>> when the
\* assertion on the period fails
TrackerNew(period, suppressionPeriod) ==
    IF JsGt(period, Num(0))
    THEN << [period |-> Val(period),
             suppressionTime |-> IF suppressionPeriod = Undef THEN Num(0) ELSE suppressionPeriod,
             counter |-> 0,
             suppressionOnset |-> Undef] >>
    ELSE << >>

\* ShouldFire with the suppression window one tick short (>= for >)
ShouldFireGe(t) ==
    /\ t.counter % t.period = 0
    /\ \/ t.suppressionOnset = Undef
       \/ JsGe(Num(t.counter - Val(t.suppressionOnset)), t.suppressionTime)

\* the value tick() returns, on the counter already advanced
ShouldFire(t) ==
    /\ t.counter % t.period = 0
    /\ \/ t.suppressionOnset = Undef
       \/ JsGt(Num(t.counter - Val(t.suppressionOnset)), t.suppressionTime)

\* tick() that counts every sample twice
TrackerTickTwice(t) == [t EXCEPT !.counter = t.counter + 2]

\* the Tracker after tick()
TrackerTick(t) == [t EXCEPT !.counter = t.counter + 1]

\* the Tracker after suppress()
TrackerSuppress(t) == [t EXCEPT !.suppressionOnset = Num(t.counter)]

(***************************************************************************)
(* State                                                                   *)
(***************************************************************************)
VARIABLES
    ext,                \* the BrowserFftFeatureExtractor: <<>> before construction, else <<fields>>
    frameIntervalTask,  \* this.frameIntervalTask: <<>> (undefined or null) or <<interval id>>
    analyser,           \* this.analyser: <<>> or <<the audio node>>
    freqDataQueue,      \* this.freqDataQueue (an undefined queue is held as the empty one)
    freqData,           \* this.freqData, the buffer the analyser writes into
    timeDataQueue,      \* this.timeDataQueue
    timeData,           \* this.timeData
    tracker,            \* this.tracker: <<>> or <<the Tracker>>
    activeTimers,       \* the intervals the browser still runs (setInterval / clearInterval)
    nextTimer,          \* the id the next setInterval returns
    inFlight,           \* onAudioFrame calls suspended at `await this.spectrogramCallback(...)`
    callCount,          \* spectrogramCallback invocations so far
    starts,             \* start() calls that set a timer
    lastCall,           \* the extractor or Tracker operation that ran last
    thrown,             \* what that operation threw ("" when it returned normally)
    disposed,           \* the tensors that operation handed to tf.dispose
    shouldFire,         \* what the last Tracker.tick() returned
    predictionCounter,  \* page global
    predictionSumArray, \* page global, ten-thousandths
    diagnosesArray,     \* what the last showMP3Result displayed, thousandths
    verdict,            \* the index the last showMP3Result selected (0-based; -1 before any)
    isProcess,          \* page global
    dialogs,            \* file dialogs opened by startMP3 and not yet answered
    decoding,           \* files chosen whose decodeAudioData has not called back
    sourceNode,         \* playerControls.sourceNode: <<>> (null) or <<node id>>
    liveNodes,          \* buffer source nodes started and not yet ended
    playing,            \* spectrogram.playing
    showTimers,         \* delay(5000) promises of halt() not yet resolved
    sessions            \* playback sessions begun (buffer source nodes created)

extVars == <<ext, frameIntervalTask, analyser, freqDataQueue, freqData,
             timeDataQueue, timeData, tracker>>
envVars == <<activeTimers, nextTimer, inFlight, callCount, starts>>
obsVars == <<lastCall, thrown, disposed, shouldFire>>
appVars == <<predictionCounter, predictionSumArray, diagnosesArray, verdict,
             isProcess, dialogs, decoding, sourceNode, liveNodes, playing,
             showTimers, sessions>>
vars == <<extVars, envVars, obsVars, appVars>>

(***************************************************************************)
(* Typed arrays, flattenQueue, getInputTensorFromFrequencyData             *)
(***************************************************************************)
\* the first frequency bin of a sample taken without signal
NegInf == -1

\* new Float32Array(n)
Zeros(n) == [k \in 1..n |-> 0]

\* arr.set(data, offset) when it fits (SubSeq makes TLC build the array at once)
SetAt(arr, data, offset) ==
    SubSeq([k \in 1..Len(arr) |->
               IF k > offset /\ k <= offset + Len(data) THEN data[k - offset] ELSE arr[k]],
           1, Len(arr))

\* flattenQueue that writes the frames newest first
flattenQueueReversed(queue) ==
    LET frameSize == Len(queue[1])
        n == Len(queue)
    IN  SubSeq([k \in 1..(n * frameSize) |->
                   queue[n - ((k - 1) \div frameSize)][((k - 1) % frameSize) + 1]],
               1, n * frameSize)

\* flattenQueue(queue): frame i (from 0) is written at i * frameSize, frameSize
\* being the length of the first frame; a position keeps the last frame written
\* over it and is 0 when no frame covers it
flattenQueue(queue) ==
    LET frameSize == Len(queue[1])
        covering(k) == { i \in 1..Len(queue) :
                           (i - 1) * frameSize < k /\ k <= (i - 1) * frameSize + Len(queue[i]) }
        last(k) == CHOOSE i \in covering(k) : \A j \in covering(k) : j <= i
    IN  SubSeq([k \in 1..(Len(queue) * frameSize) |->
                   IF covering(k) = {} THEN 0
                   ELSE LET i == last(k) IN queue[i][k - (i - 1) * frameSize]],
               1, Len(queue) * frameSize)

\* tf.util.sizeFromShape(shape)
RECURSIVE sizeFromShape(_)
sizeFromShape(shape) ==
    IF shape = <<>> THEN 1 ELSE Head(shape) * sizeFromShape(Tail(shape))

\* getInputTensorFromFrequencyData that writes the data at the start (offset 0)
getInputTensorLeftAligned(data, shape) ==
    LET size == sizeFromShape(shape)
    IN  IF Len(data) > size THEN << >>
        ELSE << [vals |-> SetAt(Zeros(size), data, 0), shape |-> shape] >>

\* getInputTensorFromFrequencyData(freqData, shape): <<the tensor>>, or <<>> when
\* vals.set throws RangeError (the data is longer than the tensor)
getInputTensorFromFrequencyData(data, shape) ==
    LET size == sizeFromShape(shape)
    IN  IF Len(data) > size THEN << >>
        ELSE << [vals |-> SetAt(Zeros(size), data, size - Len(data)), shape |-> shape] >>

(***************************************************************************)
(* BrowserFftFeatureExtractor: constructor                                 *)
(***************************************************************************)
DefaultSampleRateHz == 44100
DefaultFftSize == 1024

\* new BrowserFftFeatureExtractor(config); config is <<>> (null) or <<fields>>
Constructor(config) ==
    IF config = << >> THEN [thrown |-> "config-missing", obj |-> << >>]
    ELSE LET c == config[1]
             sampleRateHz == JsOr(c.sampleRateHz, Num(DefaultSampleRateHz))
             fftSize == JsOr(c.fftSize, Num(DefaultFftSize))
             columnTruncateLength == JsOr(c.columnTruncateLength, fftSize)
         IN  IF c.spectrogramCallback = Undef
                 THEN [thrown |-> "callback-missing", obj |-> << >>]
             ELSE IF JsLe(c.numFramesPerSpectrogram, Num(0))
                 THEN [thrown |-> "numFramesPerSpectrogram", obj |-> << >>]
             ELSE IF JsLt(c.suppressionTimeMillis, Num(0))
                 THEN [thrown |-> "suppressionTimeMillis", obj |-> << >>]
             ELSE IF ~(JsGe(c.overlapFactor, Num(0)) /\ JsLt(c.overlapFactor, Num(100)))
                 THEN [thrown |-> "overlapFactor", obj |-> << >>]
             ELSE IF JsGt(columnTruncateLength, fftSize)
                 THEN [thrown |-> "columnTruncateLength", obj |-> << >>]
             ELSE [thrown |-> "",
                   obj |-> << [suppressionTimeMillis |-> c.suppressionTimeMillis,
                               spectrogramCallback |-> c.spectrogramCallback,
                               numFrames |-> c.numFramesPerSpectrogram,
                               sampleRateHz |-> Val(sampleRateHz),
                               fftSize |-> Val(fftSize),
                               columnTruncateLength |-> Val(columnTruncateLength),
                               overlapFactor |-> Val(c.overlapFactor),
                               includeRawAudio |-> c.includeRawAudio,
                               audioContext |-> Undef,
                               stream |-> Undef] >>]

(***************************************************************************)
(* The audio source                                                        *)
(***************************************************************************)
\* what getFloatFrequencyData writes for the k-th frame with signal: every bin
\* carries the frame's ordinal, so that frames and bins can be told apart
FreqSample(k, fftSize) == [j \in 1..fftSize |-> k * fftSize + j]

\* what getFloatFrequencyData writes without signal
SilentSample(fftSize) == [j \in 1..fftSize |-> NegInf]

\* what getFloatTimeDomainData writes for the k-th frame with signal
TimeSample(k, fftSize) == [j \in 1..fftSize |-> 0 - (k * fftSize + j) - 1]

(***************************************************************************)
(* BrowserFftFeatureExtractor: start, onAudioFrame, stop                   *)
(***************************************************************************)
this == ext[1]
theTracker == tracker[1]

\* Period with the overlap left out
PeriodNoOverlap(numFrames, overlapFactor) ==
    IF IsNum(numFrames) THEN Num(Max(1, Val(numFrames))) ELSE NaN

\* Math.max(1, Math.round(this.numFrames * (1 - this.overlapFactor)))
Period(numFrames, overlapFactor) ==
    IF IsNum(numFrames)
    THEN Num(Max(1, RoundDiv(Val(numFrames) * (100 - overlapFactor), 100)))
    ELSE NaN

\* Math.round(this.suppressionTimeMillis / this.frameDurationMillis), with
\* frameDurationMillis = (fftSize / sampleRateHz) * 1e3
SuppressionTicks(suppressionTimeMillis, fftSize, sampleRateHz) ==
    IF IsNum(suppressionTimeMillis)
    THEN Num(RoundDiv(Val(suppressionTimeMillis) * sampleRateHz, fftSize * 1000))
    ELSE NaN

\* start() without its test
AlreadyStartedNever == FALSE

\* this.frameIntervalTask != null
AlreadyStarted == frameIntervalTask # << >>

\* this.frameIntervalTask == null
NotStreaming == frameIntervalTask = << >>

\* stop() that leaves the interval running
ClearIntervalNoop(timers, id) == timers

\* clearInterval(id) on the browser's intervals
ClearInterval(timers, id) == timers \ {id}

\* onAudioFrame without its silence test
IsSilentNever(buffer) == FALSE

\* this.freqData[0] === -Infinity
IsSilent(buffer) == buffer[1] = NegInf

\* PushFrame that drops the newest frame instead of the oldest (pop for shift)
PushFramePop(queue, frame, numFrames) ==
    LET pushed == Append(queue, frame)
    IN  IF Len(pushed) > numFrames THEN SubSeq(pushed, 1, Len(pushed) - 1) ELSE pushed

\* queue.push(frame), then queue.shift() when the length exceeds numFrames
PushFrame(queue, frame, numFrames) ==
    LET pushed == Append(queue, frame)
    IN  IF Len(pushed) > numFrames THEN Tail(pushed) ELSE pushed

\* new BrowserFftFeatureExtractor(config)
Construct(config) ==
    /\ lastCall = "none"
    /\ ext' = Constructor(config).obj
    /\ thrown' = Constructor(config).thrown
    /\ lastCall' = "construct"
    /\ disposed' = {}
    /\ UNCHANGED <<frameIntervalTask, analyser, freqDataQueue, freqData,
                   timeDataQueue, timeData, tracker, envVars, shouldFire, appVars>>

\* start(audioNode)
Start ==
    /\ ext # << >>
    /\ ~AlreadyStarted => starts < MaxStarts
    /\ lastCall' = "start"
    /\ disposed' = {}
    /\ IF AlreadyStarted
       THEN /\ thrown' = "already-started"
            /\ UNCHANGED <<extVars, envVars>>
       ELSE LET newTracker ==
                    TrackerNew(Period(this.numFrames, this.overlapFactor),
                               SuppressionTicks(this.suppressionTimeMillis,
                                                this.fftSize, this.sampleRateHz))
            IN  /\ analyser' = << [fftSize |-> this.fftSize * 2,
                                   smoothingTimeConstant |-> 0,
                                   connected |-> IF analyser = << >> THEN TRUE
                                                 ELSE analyser[1].connected] >>
                /\ freqDataQueue' = << >>
                /\ freqData' = Zeros(this.fftSize)
                /\ IF this.includeRawAudio
                   THEN timeDataQueue' = << >> /\ timeData' = Zeros(this.fftSize)
                   ELSE UNCHANGED <<timeDataQueue, timeData>>
                /\ IF newTracker = << >>
                   THEN /\ thrown' = "period-assert"
                        /\ UNCHANGED <<tracker, frameIntervalTask, envVars>>
                   ELSE /\ thrown' = ""
                        /\ tracker' = newTracker
                        /\ frameIntervalTask' = <<nextTimer>>
                        /\ activeTimers' = activeTimers \cup {nextTimer}
                        /\ nextTimer' = nextTimer + 1
                        /\ starts' = starts + 1
                        /\ UNCHANGED <<inFlight, callCount>>
                /\ UNCHANGED ext
    /\ UNCHANGED <<shouldFire, appVars>>

\* the part of onAudioFrame after the silence test, on a sample with signal
Sampled(timer) ==
    LET k == theTracker.counter + 1
        numFrames == Val(this.numFrames)
        shape == <<1, numFrames, this.columnTruncateLength, 1>>
        freqDataTensor == getInputTensorFromFrequencyData(flattenQueue(freqDataQueue'), shape)
        timeDataTensor ==
            IF this.includeRawAudio
            THEN getInputTensorFromFrequencyData(flattenQueue(timeDataQueue'),
                                                 <<1, numFrames * this.fftSize>>)
            ELSE << >>
    IN  /\ freqDataQueue' = PushFrame(freqDataQueue,
                                      SubSeq(freqData', 1, this.columnTruncateLength),
                                      numFrames)
        /\ IF this.includeRawAudio
           THEN /\ timeData' = TimeSample(k, this.fftSize)
                /\ timeDataQueue' = Append(timeDataQueue, timeData')
           ELSE UNCHANGED <<timeData, timeDataQueue>>
        /\ tracker' = << TrackerTick(theTracker) >>
        /\ shouldFire' = ShouldFire(TrackerTick(theTracker))
        /\ IF ~shouldFire'
           THEN thrown' = "" /\ UNCHANGED <<inFlight, callCount>>
           ELSE IF freqDataTensor = << >> \/ (this.includeRawAudio /\ timeDataTensor = << >>)
           THEN thrown' = "RangeError" /\ UNCHANGED <<inFlight, callCount>>
           ELSE /\ thrown' = ""
                /\ callCount' = callCount + 1
                /\ inFlight' = inFlight \cup
                       {[id |-> callCount + 1,
                         timer |-> timer,
                         tick |-> theTracker.counter + 1,
                         freqDataTensor |-> freqDataTensor[1],
                         timeDataTensor |-> timeDataTensor]}

\* one run of the interval task up to its return or its await; silent tells
\* whether the analyser has no signal
onAudioFrame(timer, silent) ==
    /\ timer \in activeTimers
    /\ theTracker.counter < Val(this.numFrames) + MaxExtraTicks
    /\ Cardinality(inFlight) < MaxInFlight
    /\ lastCall' = "onAudioFrame"
    /\ disposed' = {}
    /\ freqData' = IF silent THEN SilentSample(this.fftSize)
                   ELSE FreqSample(theTracker.counter + 1, this.fftSize)
    /\ IF IsSilent(freqData')
       THEN /\ thrown' = ""
            /\ UNCHANGED <<freqDataQueue, timeDataQueue, timeData, tracker,
                           shouldFire, inFlight, callCount>>
       ELSE Sampled(timer)
    /\ UNCHANGED <<ext, frameIntervalTask, analyser, activeTimers, nextTimer,
                   starts, appVars>>

\* the tensors onAudioFrame built for the invocation p, by the locals that hold
\* them: freqDataTensor and, with raw audio, timeDataTensor
Tensors(p) ==
    {"freqDataTensor"} \cup (IF p.timeDataTensor = << >> THEN {} ELSE {"timeDataTensor"})

\* the tensors onAudioFrame hands to tf.dispose once the callback of p settled
TensorsDisposed(p, outcome) == IF outcome = "reject" THEN {} ELSE Tensors(p)

\* onAudioFrame resumed after `await this.spectrogramCallback(...)`; outcome is
\* "true" or "false" (the value the callback resolved to) or "reject"
Resume(p, outcome) ==
    /\ inFlight' = inFlight \ {p}
    /\ lastCall' = "resume"
    /\ thrown' = IF outcome = "reject" THEN "callback-rejected" ELSE ""
    /\ disposed' = TensorsDisposed(p, outcome)
    /\ tracker' = IF outcome = "true" THEN << TrackerSuppress(theTracker) >> ELSE tracker
    /\ UNCHANGED <<ext, frameIntervalTask, analyser, freqDataQueue, freqData,
                   timeDataQueue, timeData, activeTimers, nextTimer, callCount,
                   starts, shouldFire>>

\* a callback handed to the extractor by a caller other than the page settles
CallbackSettles(p, outcome) ==
    /\ p \in inFlight
    /\ Resume(p, outcome)
    /\ UNCHANGED appVars

\* stop()
Stop ==
    /\ ext # << >>
    /\ lastCall' = "stop"
    /\ disposed' = {}
    /\ IF NotStreaming
       THEN /\ thrown' = "no-streaming"
            /\ UNCHANGED <<extVars, envVars>>
       ELSE /\ activeTimers' = ClearInterval(activeTimers, frameIntervalTask[1])
            /\ frameIntervalTask' = << >>
            /\ analyser' = << [analyser[1] EXCEPT !.connected = FALSE] >>
            /\ thrown' = IF this.audioContext = Undef THEN "TypeError" ELSE ""
            /\ UNCHANGED <<ext, freqDataQueue, freqData, timeDataQueue, timeData,
                           tracker, nextTimer, inFlight, callCount, starts>>
    /\ UNCHANGED <<shouldFire, appVars>>

(***************************************************************************)
(* The page: score aggregation and the playback session                    *)
(***************************************************************************)
\* new Float32Array(5), the five diagnoses, the labels of the recognizer
ClassCount == 5

\* ToFixed3 that truncates instead of rounding
ToFixed3Trunc(x, n) == IF n = 0 THEN NaN ELSE Num(x \div (10 * n))

\* (x / n).toFixed(3) stored into a Float32Array, in thousandths; x in
\* ten-thousandths; NaN when n = 0 and x = 0
ToFixed3(x, n) == IF n = 0 THEN NaN ELSE Num(RoundDiv(x, 10 * n))

\* Math.max(...arr): NaN when an element is NaN
RECURSIVE MathMax(_)
MathMax(arr) ==
    IF Len(arr) = 1 THEN arr[1]
    ELSE LET rest == MathMax(Tail(arr))
         IN  IF ~IsNum(arr[1]) \/ ~IsNum(rest) THEN NaN
             ELSE Num(Max(Val(arr[1]), Val(rest)))

\* arr.indexOf(x): the first index (0-based) holding x, -1 when there is none;
\* NaN is never found
IndexOf(arr, x) ==
    IF IsNum(x) /\ \E i \in 1..Len(arr) : arr[i] = x
    THEN (CHOOSE i \in 1..Len(arr) : arr[i] = x /\ \A j \in 1..(i - 1) : arr[j] # x) - 1
    ELSE -1

\* the body of the spectrogramCallback of init() after recognize() resolved
RecordScores(scores) ==
    /\ predictionCounter' = predictionCounter + 1
    /\ predictionSumArray' = [i \in 1..ClassCount |-> predictionSumArray[i] + scores[i]]

\* showMP3Result()
showMP3Result ==
    /\ diagnosesArray' = [i \in 1..ClassCount |-> ToFixed3(predictionSumArray[i], predictionCounter)]
    /\ verdict' = IndexOf(diagnosesArray', MathMax(diagnosesArray'))
    /\ predictionCounter' = 0
    /\ predictionSumArray' = [i \in 1..ClassCount |-> 0]
    /\ isProcess' = FALSE

\* AudioSpectrogram.halt()
halt ==
    /\ playing' = FALSE
    /\ showTimers' = showTimers + 1

\* window.startMP3 up to input.click()
StartMP3 ==
    /\ sessions + decoding + dialogs < MaxSessions
    /\ dialogs' = IF isProcess THEN dialogs ELSE dialogs + 1
    /\ UNCHANGED <<extVars, envVars, obsVars, predictionCounter, predictionSumArray,
                   diagnosesArray, verdict, isProcess, decoding, sourceNode, liveNodes,
                   playing, showTimers, sessions>>

\* input.onchange: a file is chosen
FileChosen ==
    /\ dialogs > 0
    /\ dialogs' = dialogs - 1
    /\ isProcess' = TRUE
    /\ decoding' = decoding + 1
    /\ UNCHANGED <<extVars, envVars, obsVars, predictionCounter, predictionSumArray,
                   diagnosesArray, verdict, sourceNode, liveNodes, playing, showTimers,
                   sessions>>

\* the decodeAudioData callback of AudioPlayerControls.play, with AudioSpectrogram.begin()
Play ==
    /\ decoding > 0
    /\ decoding' = decoding - 1
    /\ sessions' = sessions + 1
    /\ sourceNode' = <<sessions + 1>>
    /\ liveNodes' = liveNodes \cup {sessions + 1}
    /\ playing' = TRUE
    /\ UNCHANGED <<extVars, envVars, obsVars, predictionCounter, predictionSumArray,
                   diagnosesArray, verdict, isProcess, dialogs, showTimers>>

\* a buffer source node plays to its end: the "ended" listener runs halt()
Ended(node) ==
    /\ node \in liveNodes
    /\ liveNodes' = liveNodes \ {node}
    /\ halt
    /\ UNCHANGED <<extVars, envVars, obsVars, predictionCounter, predictionSumArray,
                   diagnosesArray, verdict, isProcess, dialogs, decoding, sourceNode,
                   sessions>>

\* window.stopMP3 with AudioPlayerControls.stop(); stopping a node that still
\* plays ends it, and its "ended" listener runs halt()
StopMP3 ==
    /\ IF isProcess /\ sourceNode # << >>
       THEN /\ sourceNode' = << >>
            /\ IF sourceNode[1] \in liveNodes
               THEN liveNodes' = liveNodes \ {sourceNode[1]} /\ halt
               ELSE UNCHANGED <<liveNodes, playing, showTimers>>
       ELSE UNCHANGED <<sourceNode, liveNodes, playing, showTimers>>
    /\ UNCHANGED <<extVars, envVars, obsVars, predictionCounter, predictionSumArray,
                   diagnosesArray, verdict, isProcess, dialogs, decoding, sessions>>

\* delay(5000) of halt() resolves: showMP3Result()
ShowResult ==
    /\ showTimers > 0
    /\ showTimers' = showTimers - 1
    /\ showMP3Result
    /\ UNCHANGED <<extVars, envVars, obsVars, dialogs, decoding, sourceNode,
                   liveNodes, playing, sessions>>

\* recognizer.recognize() of the page's spectrogramCallback settles: scores is
\* <<the score vector>> or <<>> when it rejects; the callback returns false
RecognizeSettles(p, scores) ==
    /\ p \in inFlight
    /\ IF scores = << >>
       THEN Resume(p, "reject") /\ UNCHANGED <<predictionCounter, predictionSumArray>>
       ELSE Resume(p, "false") /\ RecordScores(scores[1])
    /\ UNCHANGED <<diagnosesArray, verdict, isProcess, dialogs, decoding, sourceNode,
                   liveNodes, playing, showTimers, sessions>>

(***************************************************************************)
(* Specifications                                                          *)
(***************************************************************************)
Blank ==
    /\ ext = << >> /\ frameIntervalTask = << >> /\ analyser = << >>
    /\ freqDataQueue = << >> /\ freqData = << >>
    /\ timeDataQueue = << >> /\ timeData = << >>
    /\ activeTimers = {} /\ nextTimer = 1 /\ inFlight = {} /\ callCount = 0
    /\ starts = 0 /\ thrown = "" /\ shouldFire = FALSE
    /\ disposed = {}
    /\ predictionCounter = 0
    /\ predictionSumArray = [i \in 1..ClassCount |-> 0]
    /\ diagnosesArray = << >> /\ verdict = -1 /\ isProcess = FALSE
    /\ dialogs = 0 /\ decoding = 0 /\ sourceNode = << >> /\ liveNodes = {}
    /\ playing = FALSE /\ showTimers = 0 /\ sessions = 0

\* a configuration object
Config(cb, nf, st, sr, fs, ctl, of, raw) ==
    [spectrogramCallback |-> cb, numFramesPerSpectrogram |-> nf,
     suppressionTimeMillis |-> st, sampleRateHz |-> sr, fftSize |-> fs,
     columnTruncateLength |-> ctl, overlapFactor |-> of, includeRawAudio |-> raw]

\* the configurations the streaming runs are started with: samples of two bins
\* lasting 2 ms, truncated to one bin; a suppression time of two frames
StreamConfigs ==
    { Config(Num(1), Num(nf), Num(4), Num(1000), Num(2), Num(1), Num(of), raw) :
        nf \in 1..MaxFrames, of \in {0, 50}, raw \in BOOLEAN }

\* the end-to-end scenario: 40 frames per spectrogram, overlap 0.5
E2EConfig == Config(Num(1), Num(40), Num(0), Num(1000), Num(2), Num(1), Num(50), FALSE)

\* the configurations the constructor is tried on
AllConfigs ==
    { Config(cb, nf, st, sr, fs, ctl, of, raw) :
        cb \in {Undef, Num(1)},
        nf \in {Undef, NaN, Num(-1), Num(0), Num(1), Num(2)},
        st \in {Undef, NaN, Num(-1), Num(0), Num(4)},
        sr \in {Undef, Num(1000)},
        fs \in {Undef, Num(2)},
        ctl \in {Undef, Num(1), Num(2), Num(3)},
        of \in {Undef, NaN, Num(-25), Num(0), Num(50), Num(100)},
        raw \in BOOLEAN }

\* ---- the extractor driven by a caller ----
Init == Blank /\ tracker = << >> /\ lastCall = "none"

Next ==
    \/ \E c \in StreamConfigs : Construct(<<c>>)
    \/ Start
    \/ Stop
    \/ \E t \in activeTimers, silent \in BOOLEAN : onAudioFrame(t, silent)
    \/ \E p \in inFlight, outcome \in {"true", "false", "reject"} : CallbackSettles(p, outcome)

Spec == Init /\ [][Next]_vars

\* ---- the constructor alone ----
NextConfig == \E c \in {<<x>> : x \in AllConfigs} \cup {<< >>} : Construct(c)

SpecConfig == Init /\ [][NextConfig]_vars

\* ---- a Tracker alone ----
TickAlone ==
    /\ theTracker.counter < MaxCounter
    /\ tracker' = << TrackerTick(theTracker) >>
    /\ shouldFire' = ShouldFire(TrackerTick(theTracker))
    /\ lastCall' = "tick"
    /\ UNCHANGED <<ext, frameIntervalTask, analyser, freqDataQueue, freqData,
                   timeDataQueue, timeData, envVars, thrown, disposed, appVars>>

SuppressAlone ==
    /\ tracker' = << TrackerSuppress(theTracker) >>
    /\ lastCall' = "suppress"
    /\ UNCHANGED <<ext, frameIntervalTask, analyser, freqDataQueue, freqData,
                   timeDataQueue, timeData, envVars, thrown, disposed, shouldFire, appVars>>

InitTracker ==
    /\ Blank
    /\ lastCall = "none"
    /\ tracker \in { TrackerNew(Num(p), Num(s)) : p \in 1..MaxPeriod, s \in 0..MaxSuppression }

NextTracker == TickAlone \/ SuppressAlone

SpecTracker == InitTracker /\ [][NextTracker]_vars

\* ---- one streaming run, the end-to-end scenario included ----
NextE2E ==
    \/ \E c \in StreamConfigs \cup {E2EConfig} : Construct(<<c>>)
    \/ Start
    \/ \E t \in activeTimers, silent \in BOOLEAN : onAudioFrame(t, silent)
    \/ \E p \in inFlight, outcome \in {"true", "false", "reject"} : CallbackSettles(p, outcome)

SpecE2E == Init /\ [][NextE2E]_vars

\* ---- the page after init() ----
\* the input shape of the recognizer's model: frames per spectrogram and bins per frame
AppNumFrames == 2
AppColumns == 1

\* the config object of init()
AppConfig ==
    Config(Num(1), Num(AppNumFrames), Num(0), Num(44100), Undef, Num(AppColumns), Num(50), FALSE)

\* the score vectors recognize() may resolve to, in ten-thousandths
ScoreSet ==
    { <<3331, 3334, 1111, 1112, 1112>>,
      <<1000, 2000, 3000, 500, 3500>> }

\* init() has run: the globals are set, the extractor is constructed and started
InitApp ==
    /\ ext = Constructor(<<AppConfig>>).obj
    /\ frameIntervalTask = <<1>>
    /\ analyser = << [fftSize |-> this.fftSize * 2, smoothingTimeConstant |-> 0,
                      connected |-> TRUE] >>
    /\ freqDataQueue = << >>
    /\ freqData = Zeros(this.fftSize)
    /\ timeDataQueue = << >> /\ timeData = << >>
    /\ tracker = TrackerNew(Period(this.numFrames, this.overlapFactor),
                            SuppressionTicks(this.suppressionTimeMillis,
                                             this.fftSize, this.sampleRateHz))
    /\ activeTimers = {1} /\ nextTimer = 2 /\ inFlight = {} /\ callCount = 0
    /\ starts = 1 /\ lastCall = "init" /\ thrown = "" /\ shouldFire = FALSE
    /\ disposed = {}
    /\ predictionCounter = 0
    /\ predictionSumArray = [i \in 1..ClassCount |-> 0]
    /\ diagnosesArray = << >> /\ verdict = -1 /\ isProcess = FALSE
    /\ dialogs = 0 /\ decoding = 0 /\ sourceNode = << >> /\ liveNodes = {}
    /\ playing = FALSE /\ showTimers = 0 /\ sessions = 0

\* the analyser has signal only once a buffer source has played into it
NextApp ==
    \/ \E t \in activeTimers, silent \in BOOLEAN :
          (sessions = 0 => silent) /\ onAudioFrame(t, silent)
    \/ \E p \in inFlight, scores \in {<<x>> : x \in ScoreSet} \cup {<< >>} : RecognizeSettles(p, scores)
    \/ StartMP3
    \/ FileChosen
    \/ Play
    \/ \E node \in liveNodes : Ended(node)
    \/ StopMP3
    \/ ShowResult

SpecApp == InitApp /\ [][NextApp]_vars

\* ---- one streaming run on frames of one or two bins ----
\* samples of two bins kept whole or truncated to one bin, no raw audio
WideConfigs ==
    { Config(Num(1), Num(nf), Num(4), Num(1000), Num(2), Num(ctl), Num(of), FALSE) :
        nf \in 1..MaxFrames, ctl \in 1..2, of \in {0, 50} }

NextWide ==
    \/ \E c \in WideConfigs : Construct(<<c>>)
    \/ Start
    \/ \E t \in activeTimers, silent \in BOOLEAN : onAudioFrame(t, silent)
    \/ \E p \in inFlight, outcome \in {"true", "false", "reject"} : CallbackSettles(p, outcome)

SpecWide == Init /\ [][NextWide]_vars

\* ---- Trackers constructed by a caller ----
\* the arguments a Tracker is constructed with
TrackerPeriods == { Num(p) : p \in -1..MaxPeriod }
TrackerSuppressions == { Num(d) : d \in -1..MaxSuppression } \cup {Undef}

\* new Tracker(period, suppressionPeriod) by a caller that keeps the object
NewTracker(period, suppressionPeriod) ==
    /\ lastCall = "none"
    /\ lastCall' = "new Tracker"
    /\ IF TrackerNew(period, suppressionPeriod) = << >>
       THEN thrown' = "period-assert" /\ UNCHANGED tracker
       ELSE thrown' = "" /\ tracker' = TrackerNew(period, suppressionPeriod)
    /\ UNCHANGED <<ext, frameIntervalTask, analyser, freqDataQueue, freqData,
                   timeDataQueue, timeData, envVars, disposed, shouldFire, appVars>>

NextNewTracker ==
    \/ \E period \in TrackerPeriods, suppressionPeriod \in TrackerSuppressions :
          NewTracker(period, suppressionPeriod)
    \/ tracker # << >> /\ TickAlone
    \/ tracker # << >> /\ SuppressAlone

SpecNewTracker == Init /\ [][NextNewTracker]_vars

\* ---- flattenQueue alone ----
\* the values a frame may hold
SampleValues == {1, 2, 3}

\* the queues of capacity frames of one width
FullQueues ==
    UNION { [1..capacity -> [1..W -> SampleValues]] :
              capacity \in 1..MaxCapacity, W \in 1..MaxWidth }

\* const freqData = flattenQueue(this.freqDataQueue)
FlattenAlone ==
    /\ lastCall = "none"
    /\ freqData' = flattenQueue(freqDataQueue)
    /\ lastCall' = "flattenQueue"
    /\ UNCHANGED <<ext, frameIntervalTask, analyser, freqDataQueue, timeDataQueue,
                   timeData, tracker, envVars, thrown, disposed,
                   shouldFire, appVars>>

InitFlatten ==
    /\ ext = << >> /\ frameIntervalTask = << >> /\ analyser = << >>
    /\ freqDataQueue \in FullQueues /\ freqData = << >>
    /\ timeDataQueue = << >> /\ timeData = << >> /\ tracker = << >>
    /\ activeTimers = {} /\ nextTimer = 1 /\ inFlight = {} /\ callCount = 0
    /\ starts = 0 /\ lastCall = "none" /\ thrown = "" /\ shouldFire = FALSE
    /\ disposed = {}
    /\ predictionCounter = 0
    /\ predictionSumArray = [i \in 1..ClassCount |-> 0]
    /\ diagnosesArray = << >> /\ verdict = -1 /\ isProcess = FALSE
    /\ dialogs = 0 /\ decoding = 0 /\ sourceNode = << >> /\ liveNodes = {}
    /\ playing = FALSE /\ showTimers = 0 /\ sessions = 0

NextFlatten == FlattenAlone

SpecFlatten == InitFlatten /\ [][NextFlatten]_vars

(***************************************************************************)
(* Properties                                                              *)
(***************************************************************************)
\* C1: tick() advances the counter by exactly one and returns true exactly when
\* the new counter is a multiple of the period and either no suppress() was
\* recorded or the new counter exceeds the recorded onset by more than the
\* suppression duration; suppress() records the current counter. With period 3,
\* duration 2 and suppress() at tick 3, ticks 4 and 5 do not fire and tick 6 does.
C1_TickFiring ==
    /\ [][lastCall' = "tick" =>
            /\ tracker'[1].counter = theTracker.counter + 1
            /\ tracker'[1].suppressionOnset = theTracker.suppressionOnset
            /\ shouldFire' <=>
                 /\ tracker'[1].counter % theTracker.period = 0
                 /\ \/ theTracker.suppressionOnset = Undef
                    \/ tracker'[1].counter - Val(theTracker.suppressionOnset)
                         > Val(theTracker.suppressionTime)]_vars
    /\ [][lastCall' = "suppress" =>
            /\ tracker'[1].suppressionOnset = Num(theTracker.counter)
            /\ tracker'[1].counter = theTracker.counter]_vars
    /\ [](/\ lastCall = "tick" /\ theTracker.period = 3
          /\ theTracker.suppressionTime = Num(2) /\ theTracker.suppressionOnset = Num(3)
          => /\ theTracker.counter \in {4, 5} => ~shouldFire
             /\ theTracker.counter = 6 => shouldFire)

\* C1 witness: period 3, duration 2, suppressed at tick 3, tick 6 fires
C1_Witness ==
    /\ lastCall = "tick" /\ tracker # << >> /\ theTracker.period = 3
    /\ theTracker.suppressionTime = Num(2) /\ theTracker.suppressionOnset = Num(3)
    /\ theTracker.counter = 6 /\ shouldFire

\* C2 as stated: the callback is invoked only on a tick where the Tracker fires
\* and the queue holds exactly numFramesPerSpectrogram frames; with 40 frames
\* and overlap 0.5 the first callback is at tick 40.
C2_OnlyWhenFull ==
    [][callCount' # callCount =>
          /\ shouldFire'
          /\ Len(freqDataQueue') = Val(this.numFrames)
          /\ (ext = <<E2EConfig>> /\ callCount = 0) => tracker'[1].counter = 40]_vars

\* C2 amended: the callback is invoked only on a tick with signal where the
\* Tracker fires (the counter just advanced to a multiple of the period); the
\* queue then holds between one and numFramesPerSpectrogram frames; with 40
\* frames and overlap 0.5 the period is 20 and the first callback is at tick 20,
\* on a queue of 20 frames.
C2_OnlyOnFire ==
    [][callCount' # callCount =>
          /\ lastCall' = "onAudioFrame" /\ ~IsSilent(freqData')
          /\ callCount' = callCount + 1
          /\ shouldFire'
          /\ tracker'[1].counter = theTracker.counter + 1
          /\ tracker'[1].counter % tracker'[1].period = 0
          /\ Len(freqDataQueue') >= 1 /\ Len(freqDataQueue') <= Val(this.numFrames)
          /\ (Val(this.numFrames) = 40 /\ this.overlapFactor = 50 /\ callCount = 0) =>
                /\ tracker'[1].period = 20
                /\ tracker'[1].counter = 20
                /\ Len(freqDataQueue') = 20]_vars

\* C2 witness: the end-to-end scenario awaits the callback invoked at tick 20
C2_Witness ==
    /\ ext # << >> /\ Val(this.numFrames) = 40 /\ this.overlapFactor = 50
    /\ \E p \in inFlight : p.id = 1 /\ p.tick = 20
    /\ theTracker.counter = 20 /\ Len(freqDataQueue) = 20

\* the frame the k-th sample with signal leaves in the frequency queue
QueuedFrame(k) == SubSeq(FreqSample(k, this.fftSize), 1, this.columnTruncateLength)

\* C3: the frequency queue never holds more than numFramesPerSpectrogram frames;
\* once full it stays full, each further push removing exactly the oldest frame;
\* it always holds the most recent frames in arrival order.
C3_QueueFifo ==
    /\ [](tracker # << >> =>
            /\ Len(freqDataQueue) <= Val(this.numFrames)
            /\ Len(freqDataQueue) <= theTracker.counter
            /\ \A i \in 1..Len(freqDataQueue) :
                 freqDataQueue[i] = QueuedFrame(theTracker.counter - Len(freqDataQueue) + i))
    /\ [][(lastCall' = "onAudioFrame" /\ ~IsSilent(freqData')) =>
            LET frame == SubSeq(freqData', 1, this.columnTruncateLength)
            IN  IF Len(freqDataQueue) = Val(this.numFrames)
                THEN freqDataQueue' = Append(Tail(freqDataQueue), frame)
                ELSE freqDataQueue' = Append(freqDataQueue, frame)]_vars

\* C3 witness: a queue of two frames has evicted its oldest frame
C3_Witness ==
    /\ tracker # << >> /\ Val(this.numFrames) = 2
    /\ Len(freqDataQueue) = 2 /\ theTracker.counter = 3
    /\ freqDataQueue = <<QueuedFrame(2), QueuedFrame(3)>>

\* C4: with includeRawAudio the time-domain queue holds at most
\* numFramesPerSpectrogram frames, as many as the frequency queue, and the
\* flattened time data fits the time tensor at every firing.
C4_TimeQueueBounded ==
    (ext # << >> /\ this.includeRawAudio) =>
        /\ Len(timeDataQueue) <= Val(this.numFrames)
        /\ Len(timeDataQueue) = Len(freqDataQueue)
        /\ thrown # "RangeError"

\* C5: on a streaming extractor the first stop() completes without raising
\* and leaves the extractor idle with the timer cancelled; the next stop()
\* fails with the illegal-state error.
C5_StopTwice ==
    [][lastCall' = "stop" =>
          IF frameIntervalTask # << >>
          THEN thrown' = "" /\ frameIntervalTask' = << >> /\ activeTimers' = {}
          ELSE thrown' = "no-streaming"]_vars

\* C6: start() on a streaming extractor and stop() on an idle one fail with the
\* illegal-state error and leave the timer task, the queues, the Tracker and
\* the audio source settings as they were.
C6_IllegalStateUnchanged ==
    /\ [][(lastCall' = "start" /\ frameIntervalTask # << >>) =>
            thrown' = "already-started" /\ UNCHANGED <<extVars, envVars>>]_vars
    /\ [][(lastCall' = "stop" /\ frameIntervalTask = << >>) =>
            thrown' = "no-streaming" /\ UNCHANGED <<extVars, envVars>>]_vars

\* C6 witness: start() was refused on an extractor that had sampled frames
C6_Witness ==
    /\ lastCall = "start" /\ thrown = "already-started"
    /\ frameIntervalTask # << >> /\ theTracker.counter > 0 /\ freqDataQueue # << >>

\* C7: between stop() and the next start() no spectrogramCallback invocation
\* begins, also while an earlier invocation is still awaited (which may
\* complete); an invocation belongs to the interval task of the current start().
C7_NoCallbackAfterStop ==
    /\ [][frameIntervalTask = << >> => callCount' = callCount]_vars
    /\ [][\A p \in inFlight' \ inFlight :
            frameIntervalTask # << >> /\ p.timer = frameIntervalTask[1]]_vars

\* C7 witness: an awaited callback completed after stop(), another still awaited
C7_Witness ==
    /\ ext # << >> /\ frameIntervalTask = << >> /\ starts > 0
    /\ lastCall = "resume" /\ inFlight # {}

\* C8: a tick whose sample has negative infinity in its first bin pushes no
\* frame, leaves the Tracker as it was and invokes no callback.
C8_SilentSkipped ==
    [][(lastCall' = "onAudioFrame" /\ freqData'[1] = NegInf) =>
          UNCHANGED <<freqDataQueue, timeDataQueue, tracker, inFlight, callCount>>]_vars

\* C8 witness: a silent tick after frames with signal were queued
C8_Witness ==
    /\ lastCall = "onAudioFrame" /\ freqData # << >> /\ freqData[1] = NegInf
    /\ theTracker.counter > 0 /\ freqDataQueue # << >>

\* the constraints of C9 on a configuration, the documented defaults applied
SatisfiesConstraints(config) ==
    /\ config # << >>
    /\ LET c == config[1]
           fftSize == JsOr(c.fftSize, Num(DefaultFftSize))
       IN  /\ c.spectrogramCallback # Undef
           /\ IsNum(c.numFramesPerSpectrogram) /\ Val(c.numFramesPerSpectrogram) > 0
           /\ IsNum(c.overlapFactor) /\ Val(c.overlapFactor) >= 0 /\ Val(c.overlapFactor) < 100
           /\ IsNum(JsOr(c.columnTruncateLength, fftSize))
           /\ Val(JsOr(c.columnTruncateLength, fftSize)) <= Val(fftSize)
           /\ IsNum(c.suppressionTimeMillis) /\ Val(c.suppressionTimeMillis) >= 0

\* C9: the constructor throws for every configuration that violates a
\* constraint (a missing or non-numeric value violates its constraint) and
\* returns normally for every configuration that satisfies them all.
C9_ConstructorValidates ==
    [][\A c \in {<<x>> : x \in AllConfigs} \cup {<< >>} :
          Construct(c) => (thrown' = "" <=> SatisfiesConstraints(c))]_vars

\* C10 as stated: showMP3Result after N >= 1 recorded score vectors yields for
\* each class the sum divided by N, selects a class with the largest mean and
\* leaves the counter and every sum at zero.
C10_ExactMean ==
    [][(ShowResult /\ predictionCounter >= 1) =>
          /\ \A i \in 1..ClassCount :
               /\ IsNum(diagnosesArray'[i])
               /\ Val(diagnosesArray'[i]) * 10 * predictionCounter = predictionSumArray[i]
          /\ verdict' \in 0..(ClassCount - 1)
          /\ \A j \in 1..ClassCount :
               predictionSumArray[verdict' + 1] >= predictionSumArray[j]
          /\ predictionCounter' = 0
          /\ \A i \in 1..ClassCount : predictionSumArray'[i] = 0]_vars

\* the distance between a displayed value d (thousandths) and x / n (x in
\* ten-thousandths), in units of 1 / (10000 n)
Distance(d, x, n) == IF d * 10 * n >= x THEN d * 10 * n - x ELSE x - d * 10 * n

\* C10 amended: showMP3Result after N >= 1 recorded score vectors yields for
\* each class the mean rounded to three decimals (within 0.0005 of sum / N),
\* selects the lowest-numbered class among those whose rounded mean is largest,
\* and leaves the counter and every sum at zero.
C10_RoundedMean ==
    [][(ShowResult /\ predictionCounter >= 1) =>
          /\ \A i \in 1..ClassCount :
               /\ IsNum(diagnosesArray'[i])
               /\ 2 * Distance(Val(diagnosesArray'[i]), predictionSumArray[i], predictionCounter)
                    <= 10 * predictionCounter
          /\ verdict' \in 0..(ClassCount - 1)
          /\ \A j \in 1..ClassCount :
               /\ Val(diagnosesArray'[verdict' + 1]) >= Val(diagnosesArray'[j])
               /\ j < verdict' + 1 =>
                    Val(diagnosesArray'[verdict' + 1]) > Val(diagnosesArray'[j])
          /\ predictionCounter' = 0
          /\ \A i \in 1..ClassCount : predictionSumArray'[i] = 0]_vars

\* C10 witness: one score vector <<0.3331, 0.3334, 0.1111, 0.1112, 0.1112>> was
\* recorded and shown: classes 0 and 1 both display 0.333 and class 0 is selected
C10_Witness ==
    /\ diagnosesArray = <<Num(333), Num(333), Num(111), Num(111), Num(111)>>
    /\ verdict = 0
    /\ predictionCounter = 0
    /\ \A i \in 1..ClassCount : predictionSumArray[i] = 0

\* C11: showMP3Result run with no score vector recorded (predictionCounter = 0)
\* divides nothing by zero and yields a defined result: every displayed value is
\* a number and the selected index is one of the classes.
C11_NoDataDefined ==
    [][(ShowResult /\ predictionCounter = 0) =>
          /\ \A i \in 1..ClassCount : IsNum(diagnosesArray'[i])
          /\ verdict' \in 0..(ClassCount - 1)]_vars

\* C12: flattenQueue on a queue of capacity frames of width W returns
\* capacity * W values, position i * W + j (from 0) holding element j of the
\* i-th frame in push order, the oldest frame first.
C12_FlattenInOrder ==
    lastCall = "flattenQueue" =>
        LET capacity == Len(freqDataQueue)
            W == Len(freqDataQueue[1])
        IN  /\ Len(freqData) = capacity * W
            /\ \A i \in 0..(capacity - 1), j \in 0..(W - 1) :
                 freqData[i * W + j + 1] = freqDataQueue[i + 1][j + 1]

\* C12 witness: two frames of two values were flattened
C12_Witness ==
    /\ lastCall = "flattenQueue"
    /\ freqDataQueue = << <<1, 2>>, <<3, 1>> >>
    /\ freqData = <<1, 2, 3, 1>>

\* C13: new Tracker(period, duration) throws whenever period <= 0 or
\* duration < 0, and otherwise succeeds with counter 0 and no suppression onset.
C13_TrackerValidates ==
    [][\A period \in TrackerPeriods, suppressionPeriod \in TrackerSuppressions :
          NewTracker(period, suppressionPeriod) =>
             IF Val(period) <= 0 \/ (IsNum(suppressionPeriod) /\ Val(suppressionPeriod) < 0)
             THEN thrown' # ""
             ELSE /\ thrown' = ""
                  /\ tracker'[1].counter = 0
                  /\ tracker'[1].suppressionOnset = Undef]_vars

\* C14: at every firing the frequency tensor handed to the callback has the
\* shape [1, numFrames, columnTruncateLength, 1] and numFrames *
\* columnTruncateLength values; its last queueLength * columnTruncateLength
\* values are the queued frames in queue order, the last of them the frame
\* sampled on the firing tick, and every earlier value is zero.
C14_TensorRightAligned ==
    [][\A p \in inFlight' \ inFlight :
          LET vals == p.freqDataTensor.vals
              ctl == this.columnTruncateLength
              size == Val(this.numFrames) * ctl
              queueLength == Len(freqDataQueue')
              pad == size - queueLength * ctl
          IN  /\ p.freqDataTensor.shape = <<1, Val(this.numFrames), ctl, 1>>
              /\ Len(vals) = size
              /\ pad >= 0
              /\ pad > 0 <=> queueLength < Val(this.numFrames)
              /\ \A k \in 1..pad : vals[k] = 0
              /\ \A i \in 1..queueLength, j \in 1..ctl :
                   vals[pad + (i - 1) * ctl + j] = freqDataQueue'[i][j]
              /\ p.tick = tracker'[1].counter
              /\ freqDataQueue'[queueLength] = QueuedFrame(p.tick)]_vars

\* C14 witness: two frames of two bins per spectrogram, the callback of tick 1
\* is awaited on a tensor of two zeros followed by the first frame
C14_Witness ==
    /\ ext # << >> /\ Val(this.numFrames) = 2 /\ this.columnTruncateLength = 2
    /\ \E p \in inFlight :
         /\ p.tick = 1
         /\ p.freqDataTensor.vals = <<0, 0>> \o FreqSample(1, 2)

\* C15: spectrogramCallback invocations are serialized: an invocation never
\* begins while an earlier one is still awaited, so at most one is in flight.
C15_Serialized ==
    /\ [][callCount' # callCount => inFlight = {}]_vars
    /\ [](Cardinality(inFlight) <= 1)

\* C16: when the callback invoked at tick T resolves to true, the Tracker
\* records T as the suppression onset, and no callback was invoked on a tick t
\* with T < t <= T + S while that callback was awaited.
C16_OnsetAtFiringTick ==
    [][\A p \in inFlight :
          CallbackSettles(p, "true") =>
             /\ tracker'[1].suppressionOnset = Num(p.tick)
             /\ \A q \in inFlight :
                  ~(q.tick > p.tick /\ JsLe(Num(q.tick - p.tick), theTracker.suppressionTime))]_vars

\* C17: once the callback of a firing has settled, resolved or rejected, the
\* tensors built for that firing (the frequency tensor and, with raw audio, the
\* time-domain tensor) are released: the continuation of onAudioFrame, the only
\* holder of them, hands them to tf.dispose.
C17_TensorsReleased ==
    [][\A p \in inFlight, outcome \in {"true", "false", "reject"} :
          CallbackSettles(p, outcome) => disposed' = Tensors(p)]_vars

\* C18: at the moment a session starts (the decodeAudioData callback of play
\* starts the source and runs begin()), predictionCounter is 0 and every entry
\* of predictionSumArray is 0.
C18_ZeroAtSessionStart ==
    [][Play =>
          /\ predictionCounter' = 0
          /\ \A i \in 1..ClassCount : predictionSumArray'[i] = 0]_vars

\* C19: while streaming, after every sampling tick the frequency queue holds
\* min(Tracker counter, numFramesPerSpectrogram) frames: start() empties the
\* queue and installs a Tracker at counter 0, a tick with signal pushes one
\* frame and advances the counter by one, a silent tick changes neither; so a
\* firing at a tick >= numFramesPerSpectrogram sees a full queue and a firing
\* at an earlier tick sees as many frames as the tick's number.
C19_QueueTracksCounter ==
    /\ [](frameIntervalTask # << >> =>
            Len(freqDataQueue) = IF theTracker.counter <= Val(this.numFrames)
                                 THEN theTracker.counter ELSE Val(this.numFrames))
    /\ [][(lastCall' = "start" /\ thrown' = "") =>
            tracker'[1].counter = 0 /\ freqDataQueue' = << >>]_vars
    /\ [][lastCall' = "onAudioFrame" =>
            IF IsSilent(freqData')
            THEN tracker' = tracker /\ Len(freqDataQueue') = Len(freqDataQueue)
            ELSE tracker'[1].counter = theTracker.counter + 1]_vars
    /\ [][\A p \in inFlight' \ inFlight :
            Len(freqDataQueue') = IF p.tick >= Val(this.numFrames)
                                  THEN Val(this.numFrames) ELSE p.tick]_vars

\* C19 witness: after a restart, the first tick with signal fired on a queue of
\* one frame out of two
C19_Witness ==
    /\ starts = 2 /\ frameIntervalTask # << >> /\ lastCall = "onAudioFrame"
    /\ Val(this.numFrames) = 2 /\ theTracker.counter = 1 /\ Len(freqDataQueue) = 1
    /\ \E p \in inFlight : p.tick = 1 /\ p.timer = frameIntervalTask[1]

====
